---- MODULE Spec2Model ----
(***************************************************************************)
(* A model of mapserver-rs: the MapPool (mappool.rs), its worker closures, *)
(* the "Garbage Collection" (Reaper) thread, the MapRenderChannel, and the *)
(* tile arithmetic of coordinates.rs.                                      *)
(***************************************************************************)
EXTENDS Integers, Sequences, FiniteSets, TLC

\* ---------------------------------------------------------------- bounds
\* Largest `size` passed to MapPool::create.
MaxSize == 2
\* Cap on the number of worker closures handed to the thread pool in a run.
MaxWorkers == 2
\* Largest zoom of an input tile, and largest number of levels below it.
MaxZoom == 2
MaxDepth == 2
\* The idle timeout of a worker's select!, in ticks of idle time.
IdleTicks == 1

\* Mapfile strings (pool keys), request handlers (callers), extents.
Keys == {"k1", "k2"}
Callers == {"c1", "c2"}
Extents == {1, 2}

Workers == 1..MaxWorkers
NoWorker == 0
NoExtent == 0
NoImage == <<>>

VARIABLES
    size,      \* argument of MapPool::create: worker threads besides the Reaper's
    lookup,    \* MapPool.lookup: key -> worker whose channel the entry holds (0: absent)
    lock,      \* holder of the lookup mutex: "free" or "reaper"
    nworkers,  \* number of worker closures executed on the thread pool so far
    wkey,      \* worker -> mapfile_str captured by its closure
    wpc,       \* worker -> position in its closure
    wext,      \* worker -> extent received, being drawn
    wimg,      \* worker -> image drawn, being sent on img_sender
    wtick,     \* worker -> idle time elapsed in the current select!
    rpc,       \* position of the Reaper thread
    rkey,      \* exited_mapfile received by the Reaper
    cpc,       \* caller -> position in acquire_or_create / render
    chan,      \* caller -> worker its MapRenderChannel is connected to
    cext,      \* caller -> extent passed to render
    cresp,     \* caller -> bytes returned by render
    tile,      \* Tile::children: self
    target,    \* Tile::children: target_zoom
    tiles,     \* Tile::children: the vector built
    tz,        \* Tile::children: loop variable z
    tpc        \* Tile::children: position

poolvars == <<size, lookup, lock, nworkers, wkey, wpc, wext, wimg, wtick, rpc, rkey,
              cpc, chan, cext, cresp>>
tilevars == <<tile, target, tiles, tz, tpc>>
vars == <<poolvars, wtick, tilevars>>

\* ------------------------------------------------------------ Map (Renderer)
\* Map::draw: the bytes depend on the mapfile and the extent only.
Draw(k, e) == <<k, e>>

\* Positions of a worker closure.
\*   queued    job sent to the thread pool, no thread runs it yet
\*   init      a thread runs the closure, Map::from not yet returned
\*   waiting   in select!, no extent accepted
\*   drawing   extent accepted, in map.draw
\*   replying  in img_sender.send
\*   exiting   left the loop, blocked in exit.send
\*   notified  exit.send returned, locals (map, channel ends) not yet dropped
\*   done      closure returned, everything dropped
\*   deadC     Map::from panicked
\*   deadD     map.draw panicked (unwinding dropped the map)
HoldsThread == {"init", "waiting", "drawing", "replying", "exiting", "notified"}
MapAlive == {"waiting", "drawing", "replying", "exiting", "notified"}
LeftLoop == {"exiting", "notified", "done"}
Dropped == {"done", "deadC", "deadD"}

Spawned == 1..nworkers
Busy == Cardinality({w \in Spawned : wpc[w] \in HoldsThread})

\* ------------------------------------------------------------------ Init
PoolInit ==
    /\ size \in 1..MaxSize
    /\ lookup = [k \in Keys |-> NoWorker]
    /\ lock = "free"
    /\ nworkers = 0
    /\ wkey = [w \in Workers |-> "none"]
    /\ wpc = [w \in Workers |-> "none"]
    /\ wext = [w \in Workers |-> NoExtent]
    /\ wimg = [w \in Workers |-> NoImage]
    /\ wtick = [w \in Workers |-> 0]
    /\ rpc = "idle"
    /\ rkey = "none"
    /\ cpc = [c \in Callers |-> "idle"]
    /\ chan = [c \in Callers |-> NoWorker]
    /\ cext = [c \in Callers |-> NoExtent]
    /\ cresp = [c \in Callers |-> NoImage]

TileOff ==
    /\ tile = [x |-> 0, y |-> 0, zoom |-> 0]
    /\ target = 0
    /\ tiles = <<>>
    /\ tz = 0
    /\ tpc = "off"

Init == PoolInit /\ TileOff

\* Variant: the closure is executed without consulting the lookup entry.
AcquireAlways(c, k) ==
    /\ cpc[c] = "idle"
    /\ lock = "free"
    /\ nworkers < MaxWorkers
    /\ nworkers' = nworkers + 1
    /\ wkey' = [wkey EXCEPT ![nworkers + 1] = k]
    /\ wpc' = [wpc EXCEPT ![nworkers + 1] = "queued"]
    /\ lookup' = [lookup EXCEPT ![k] = nworkers + 1]
    /\ chan' = [chan EXCEPT ![c] = nworkers + 1]
    /\ cpc' = [cpc EXCEPT ![c] = "have"]
    /\ UNCHANGED <<size, lock, wext, wimg, rpc, rkey, cext, cresp, wtick, tilevars>>

\* Variant: the lock is held by a worker while it constructs its Map or draws,
\* so acquire_or_create waits for it.
AcquireWaitsForWorkers(c, k) ==
    /\ cpc[c] = "idle"
    /\ lock = "free"
    /\ \A v \in Spawned : wpc[v] \notin {"init", "drawing"}
    /\ IF lookup[k] # NoWorker
       THEN /\ chan' = [chan EXCEPT ![c] = lookup[k]]
            /\ UNCHANGED <<lookup, nworkers, wkey, wpc>>
       ELSE /\ nworkers < MaxWorkers
            /\ nworkers' = nworkers + 1
            /\ wkey' = [wkey EXCEPT ![nworkers + 1] = k]
            /\ wpc' = [wpc EXCEPT ![nworkers + 1] = "queued"]
            /\ lookup' = [lookup EXCEPT ![k] = nworkers + 1]
            /\ chan' = [chan EXCEPT ![c] = nworkers + 1]
    /\ cpc' = [cpc EXCEPT ![c] = "have"]
    /\ UNCHANGED <<size, lock, wext, wimg, rpc, rkey, cext, cresp, wtick, tilevars>>

\* ------------------------------------------------------- acquire_or_create
\* MapPool::acquire_or_create, whole: lock, entry().or_insert_with(), clone,
\* unlock.  ThreadPool::execute only queues the closure; it never waits for
\* a thread.  The guard on nworkers caps the run.
Acquire(c, k) ==
    /\ cpc[c] = "idle"
    /\ lock = "free"
    /\ IF lookup[k] # NoWorker
       THEN /\ chan' = [chan EXCEPT ![c] = lookup[k]]
            /\ UNCHANGED <<lookup, nworkers, wkey, wpc>>
       ELSE /\ nworkers < MaxWorkers
            /\ nworkers' = nworkers + 1
            /\ wkey' = [wkey EXCEPT ![nworkers + 1] = k]
            /\ wpc' = [wpc EXCEPT ![nworkers + 1] = "queued"]
            /\ lookup' = [lookup EXCEPT ![k] = nworkers + 1]
            /\ chan' = [chan EXCEPT ![c] = nworkers + 1]
    /\ cpc' = [cpc EXCEPT ![c] = "have"]
    /\ UNCHANGED <<size, lock, wext, wimg, rpc, rkey, cext, cresp, wtick, tilevars>>

\* ------------------------------------------------------------------ render
\* The request channel of worker w is disconnected for a sender once the
\* worker's extent_receiver is dropped; the response channel is disconnected
\* for a receiver once its img_sender is dropped.  Both are dropped when the
\* closure returns or unwinds.
\* Variant: the channel ends are dropped on leaving the loop.
DisconnectedOnBreak(w) == wpc[w] \in Dropped \cup {"exiting", "notified"}

Disconnected(w) == wpc[w] \in Dropped

\* render: extent_sender.send(ext) is entered.
RenderSend(c, e) ==
    /\ cpc[c] \in {"have", "got"}
    /\ cpc' = [cpc EXCEPT ![c] = "sending"]
    /\ cext' = [cext EXCEPT ![c] = e]
    /\ cresp' = [cresp EXCEPT ![c] = NoImage]
    /\ UNCHANGED <<size, lookup, lock, nworkers, wkey, wpc, wext, wimg, rpc,
                   rkey, chan, wtick, tilevars>>

\* render: send returns Err, the todo!() arm panics.
SendFail(c) ==
    /\ cpc[c] = "sending"
    /\ Disconnected(chan[c])
    /\ cpc' = [cpc EXCEPT ![c] = "failed"]
    /\ UNCHANGED <<size, lookup, lock, nworkers, wkey, wpc, wext, wimg, rpc,
                   rkey, chan, cext, cresp, wtick, tilevars>>

\* render: img_receiver.recv() returns Err, unwrap panics.
RecvFail(c) ==
    /\ cpc[c] = "receiving"
    /\ Disconnected(chan[c])
    /\ cpc' = [cpc EXCEPT ![c] = "failed"]
    /\ UNCHANGED <<size, lookup, lock, nworkers, wkey, wpc, wext, wimg, rpc,
                   rkey, chan, cext, cresp, wtick, tilevars>>

\* The handler ends (render_map returns or unwinds): the channel is dropped.
Return(c) ==
    /\ cpc[c] \in {"got", "failed"}
    /\ cpc' = [cpc EXCEPT ![c] = "idle"]
    /\ chan' = [chan EXCEPT ![c] = NoWorker]
    /\ cext' = [cext EXCEPT ![c] = NoExtent]
    /\ cresp' = [cresp EXCEPT ![c] = NoImage]
    /\ UNCHANGED <<size, lookup, lock, nworkers, wkey, wpc, wext, wimg, rpc,
                   rkey, wtick, tilevars>>

\* ------------------------------------------------------------ worker closure
\* The thread pool has size + 1 threads and the Reaper's loop keeps one for
\* ever; a queued closure starts when one of the other `size` is free, in
\* the order the closures were queued.
\* Variant: a thread per closure, no bound.
SlotFreeAlways == TRUE

\* Variant: the Reaper's thread is available to workers as well.
SlotFreeWithReaperThread == Busy < size + 1

SlotFree == Busy < size

WorkerStart(w) ==
    /\ w \in Spawned
    /\ wpc[w] = "queued"
    /\ \A v \in Spawned : wpc[v] = "queued" => w <= v
    /\ SlotFree
    /\ wpc' = [wpc EXCEPT ![w] = "init"]
    /\ UNCHANGED <<size, lookup, lock, nworkers, wkey, wext, wimg, rpc, rkey,
                   cpc, chan, cext, cresp, wtick, tilevars>>

\* Map::from returns a Map.
WorkerConstruct(w) ==
    /\ w \in Spawned
    /\ wpc[w] = "init"
    /\ wpc' = [wpc EXCEPT ![w] = "waiting"]
    /\ UNCHANGED <<size, lookup, lock, nworkers, wkey, wext, wimg, rpc, rkey,
                   cpc, chan, cext, cresp, wtick, tilevars>>

\* Map::from panics ("Unable to load mapfile"): the closure unwinds, nothing
\* is sent on exit, the entry stays in lookup.
WorkerConstructPanic(w) ==
    /\ w \in Spawned
    /\ wpc[w] = "init"
    /\ wpc' = [wpc EXCEPT ![w] = "deadC"]
    /\ UNCHANGED <<size, lookup, lock, nworkers, wkey, wext, wimg, rpc, rkey,
                   cpc, chan, cext, cresp, wtick, tilevars>>

\* Variant: one render at a time over all workers.
WorkerRecvSerial(w, c) ==
    /\ w \in Spawned
    /\ wpc[w] = "waiting"
    /\ \A v \in Spawned : wpc[v] \notin {"drawing", "replying"}
    /\ cpc[c] = "sending"
    /\ chan[c] = w
    /\ wpc' = [wpc EXCEPT ![w] = "drawing"]
    /\ wext' = [wext EXCEPT ![w] = cext[c]]
    /\ wtick' = [wtick EXCEPT ![w] = 0]
    /\ cpc' = [cpc EXCEPT ![c] = "receiving"]
    /\ UNCHANGED <<size, lookup, lock, nworkers, wkey, wimg, rpc, rkey, chan,
                   cext, cresp, tilevars>>

\* Variant: an extent is accepted while the previous one is being served.
WorkerRecvEager(w, c) ==
    /\ w \in Spawned
    /\ wpc[w] \in {"waiting", "drawing", "replying"}
    /\ cpc[c] = "sending"
    /\ chan[c] = w
    /\ wpc' = [wpc EXCEPT ![w] = "drawing"]
    /\ wext' = [wext EXCEPT ![w] = cext[c]]
    /\ wtick' = [wtick EXCEPT ![w] = 0]
    /\ cpc' = [cpc EXCEPT ![c] = "receiving"]
    /\ UNCHANGED <<size, lookup, lock, nworkers, wkey, wimg, rpc, rkey, chan,
                   cext, cresp, tilevars>>

\* select!: recv(extent_receiver) pairs with caller c's send; the select!
\* returns and its timeout is discarded, the next select! starts a new one.
WorkerRecv(w, c) ==
    /\ w \in Spawned
    /\ wpc[w] = "waiting"
    /\ cpc[c] = "sending"
    /\ chan[c] = w
    /\ wpc' = [wpc EXCEPT ![w] = "drawing"]
    /\ wext' = [wext EXCEPT ![w] = cext[c]]
    /\ wtick' = [wtick EXCEPT ![w] = 0]
    /\ cpc' = [cpc EXCEPT ![c] = "receiving"]
    /\ UNCHANGED <<size, lookup, lock, nworkers, wkey, wimg, rpc, rkey, chan,
                   cext, cresp, tilevars>>

\* Variant: the extent set on the map is not the one received.
WorkerDrawStale(w) ==
    /\ w \in Spawned
    /\ wpc[w] = "drawing"
    /\ wpc' = [wpc EXCEPT ![w] = "replying"]
    /\ wimg' = [wimg EXCEPT ![w] = Draw(wkey[w], NoExtent)]
    /\ wext' = [wext EXCEPT ![w] = NoExtent]
    /\ UNCHANGED <<size, lookup, lock, nworkers, wkey, rpc, rkey, cpc, chan,
                   cext, cresp, wtick, tilevars>>

\* map.draw(extent) returns the image.
WorkerDraw(w) ==
    /\ w \in Spawned
    /\ wpc[w] = "drawing"
    /\ wpc' = [wpc EXCEPT ![w] = "replying"]
    /\ wimg' = [wimg EXCEPT ![w] = Draw(wkey[w], wext[w])]
    /\ wext' = [wext EXCEPT ![w] = NoExtent]
    /\ UNCHANGED <<size, lookup, lock, nworkers, wkey, rpc, rkey, cpc, chan,
                   cext, cresp, wtick, tilevars>>

\* map.draw panics ("Unable to render map").
WorkerDrawPanic(w) ==
    /\ w \in Spawned
    /\ wpc[w] = "drawing"
    /\ wpc' = [wpc EXCEPT ![w] = "deadD"]
    /\ wext' = [wext EXCEPT ![w] = NoExtent]
    /\ UNCHANGED <<size, lookup, lock, nworkers, wkey, wimg, rpc, rkey, cpc,
                   chan, cext, cresp, wtick, tilevars>>

\* Variant: the image is handed to any holder of the channel that is inside
\* render, whether or not its own send has completed.
WorkerReplyAny(w, c) ==
    /\ w \in Spawned
    /\ wpc[w] = "replying"
    /\ cpc[c] \in {"sending", "receiving"}
    /\ chan[c] = w
    /\ wpc' = [wpc EXCEPT ![w] = "waiting"]
    /\ wimg' = [wimg EXCEPT ![w] = NoImage]
    /\ cpc' = [cpc EXCEPT ![c] = "got"]
    /\ cresp' = [cresp EXCEPT ![c] = wimg[w]]
    /\ UNCHANGED <<size, lookup, lock, nworkers, wkey, wext, rpc, rkey, chan,
                   cext, wtick, tilevars>>

\* img_sender.send(img) pairs with a recv on a clone of img_receiver.
WorkerReply(w, c) ==
    /\ w \in Spawned
    /\ wpc[w] = "replying"
    /\ cpc[c] = "receiving"
    /\ chan[c] = w
    /\ wpc' = [wpc EXCEPT ![w] = "waiting"]
    /\ wimg' = [wimg EXCEPT ![w] = NoImage]
    /\ cpc' = [cpc EXCEPT ![c] = "got"]
    /\ cresp' = [cresp EXCEPT ![c] = wimg[w]]
    /\ UNCHANGED <<size, lookup, lock, nworkers, wkey, wext, rpc, rkey, chan,
                   cext, wtick, tilevars>>

\* Variant: the pool entry does not count as a sender of the channel.
HasSenderCallersOnly(w) == \E c \in Callers : chan[c] = w

\* extent_sender of worker w's channel is alive: the pool entry holds one,
\* each MapRenderChannel clone held by a caller holds one.
HasSender(w) ==
    \/ lookup[wkey[w]] = w
    \/ \E c \in Callers : chan[c] = w

\* select! is blocked with no send waiting: idle time passes.
WorkerIdle(w) ==
    /\ w \in Spawned
    /\ wpc[w] = "waiting"
    /\ \A c \in Callers : ~(cpc[c] = "sending" /\ chan[c] = w)
    /\ wtick[w] < IdleTicks
    /\ wtick' = [wtick EXCEPT ![w] = wtick[w] + 1]
    /\ UNCHANGED <<size, lookup, lock, nworkers, wkey, wpc, wext, wimg, rpc,
                   rkey, cpc, chan, cext, cresp, tilevars>>

\* Variant: the default arm may fire while an extent is being served.
WorkerBreakAnywhere(w) ==
    /\ w \in Spawned
    /\ wpc[w] \in {"waiting", "drawing", "replying"}
    /\ \A c \in Callers : ~(cpc[c] = "sending" /\ chan[c] = w)
    /\ wpc' = [wpc EXCEPT ![w] = "exiting"]
    /\ UNCHANGED <<size, lookup, lock, nworkers, wkey, wext, wimg, rpc, rkey,
                   cpc, chan, cext, cresp, wtick, tilevars>>

\* Variant: on leaving the loop the worker removes its own pool entry.
WorkerBreakRemoves(w) ==
    /\ w \in Spawned
    /\ wpc[w] = "waiting"
    /\ \A c \in Callers : ~(cpc[c] = "sending" /\ chan[c] = w)
    /\ wtick[w] = IdleTicks \/ ~HasSender(w)
    /\ lock = "free"
    /\ wpc' = [wpc EXCEPT ![w] = "exiting"]
    /\ lookup' = [lookup EXCEPT ![wkey[w]] = NoWorker]
    /\ UNCHANGED <<size, lock, nworkers, wkey, wext, wimg, rpc, rkey,
                   cpc, chan, cext, cresp, wtick, tilevars>>

\* select!: no send is waiting for the whole idle timeout (default arm), or
\* every sender is gone (recv yields Err): break.
WorkerBreak(w) ==
    /\ w \in Spawned
    /\ wpc[w] = "waiting"
    /\ \A c \in Callers : ~(cpc[c] = "sending" /\ chan[c] = w)
    /\ wtick[w] = IdleTicks \/ ~HasSender(w)
    /\ wpc' = [wpc EXCEPT ![w] = "exiting"]
    /\ UNCHANGED <<size, lookup, lock, nworkers, wkey, wext, wimg, rpc, rkey,
                   cpc, chan, cext, cresp, wtick, tilevars>>

\* exit.send(mapfile_str) pairs with the Reaper's exit_receiver.recv().
ExitRendezvous(w) ==
    /\ w \in Spawned
    /\ wpc[w] = "exiting"
    /\ rpc = "idle"
    /\ wpc' = [wpc EXCEPT ![w] = "notified"]
    /\ rpc' = "got"
    /\ rkey' = wkey[w]
    /\ UNCHANGED <<size, lookup, lock, nworkers, wkey, wext, wimg, cpc, chan,
                   cext, cresp, wtick, tilevars>>

\* The closure returns: map is dropped (msFreeMap), then the captured
\* extent_receiver, img_sender and exit; the thread takes the next job.
WorkerFinish(w) ==
    /\ w \in Spawned
    /\ wpc[w] = "notified"
    /\ wpc' = [wpc EXCEPT ![w] = "done"]
    /\ UNCHANGED <<size, lookup, lock, nworkers, wkey, wext, wimg, rpc, rkey,
                   cpc, chan, cext, cresp, wtick, tilevars>>

\* -------------------------------------------------------------------- Reaper
PoolEmpty(lk) == \A k \in Keys : lk[k] = NoWorker

\* map_lookup.lock().unwrap(); lk.remove(&exited_mapfile).unwrap()
ReaperRemove ==
    /\ rpc = "got"
    /\ lock = "free"
    /\ IF lookup[rkey] # NoWorker
       THEN /\ lookup' = [lookup EXCEPT ![rkey] = NoWorker]
            /\ lock' = "reaper"
            /\ rpc' = "removed"
       ELSE /\ lock' = "poisoned"
            /\ rpc' = "panicked"
            /\ UNCHANGED lookup
    /\ UNCHANGED <<size, nworkers, wkey, wpc, wext, wimg, rkey, cpc, chan,
                   cext, cresp, wtick, tilevars>>

\* Variant: the guard is dropped before the cleanup calls.
ReaperCheckUnlocks ==
    /\ rpc = "removed"
    /\ rpc' = IF PoolEmpty(lookup) THEN "cleanup" ELSE "idle"
    /\ lock' = "free"
    /\ rkey' = "none"
    /\ UNCHANGED <<size, lookup, nworkers, wkey, wpc, wext, wimg, cpc, chan,
                   cext, cresp, wtick, tilevars>>

\* if lk.len() == 0 { ... }, else the guard is dropped.
ReaperCheck ==
    /\ rpc = "removed"
    /\ IF PoolEmpty(lookup)
       THEN rpc' = "cleanup" /\ UNCHANGED lock
       ELSE rpc' = "idle" /\ lock' = "free"
    /\ rkey' = "none"
    /\ UNCHANGED <<size, lookup, nworkers, wkey, wpc, wext, wimg, cpc, chan,
                   cext, cresp, wtick, tilevars>>

\* msGDALCleanup() ... msProjectionContextPoolCleanup() have run; the guard
\* is dropped.
ReaperCleanup ==
    /\ rpc = "cleanup"
    /\ rpc' = "idle"
    /\ lock' = "free"
    /\ UNCHANGED <<size, lookup, nworkers, wkey, wpc, wext, wimg, rkey, cpc,
                   chan, cext, cresp, wtick, tilevars>>

\* ---------------------------------------------------------------------- Next
Next ==
    \/ \E c \in Callers, k \in Keys : Acquire(c, k)
    \/ \E c \in Callers, e \in Extents : RenderSend(c, e)
    \/ \E c \in Callers : SendFail(c)
    \/ \E c \in Callers : RecvFail(c)
    \/ \E c \in Callers : Return(c)
    \/ \E w \in Workers : WorkerStart(w)
    \/ \E w \in Workers : WorkerConstruct(w)
    \/ \E w \in Workers : WorkerConstructPanic(w)
    \/ \E w \in Workers, c \in Callers : WorkerRecv(w, c)
    \/ \E w \in Workers : WorkerDraw(w)
    \/ \E w \in Workers : WorkerDrawPanic(w)
    \/ \E w \in Workers, c \in Callers : WorkerReply(w, c)
    \/ \E w \in Workers : WorkerIdle(w)
    \/ \E w \in Workers : WorkerBreak(w)
    \/ \E w \in Workers : ExitRendezvous(w)
    \/ \E w \in Workers : WorkerFinish(w)
    \/ ReaperRemove
    \/ ReaperCheck
    \/ ReaperCleanup

Spec == Init /\ [][Next]_vars

\* ------------------------------------------------------------------ fairness
\* A thread that can take its next step takes it; the zero-capacity channel
\* wakes blocked senders in arrival order, so a blocked send is not passed
\* over for ever.  Nothing is assumed of the callers' choices (Acquire,
\* RenderSend, Return) nor of the idle timeout.
WorkerStep(w) ==
    \/ WorkerStart(w)
    \/ WorkerConstruct(w) \/ WorkerConstructPanic(w)
    \/ WorkerDraw(w) \/ WorkerDrawPanic(w)
    \/ \E c \in Callers : WorkerReply(w, c)
    \/ WorkerFinish(w)

ReaperStep == ReaperRemove \/ ReaperCheck \/ ReaperCleanup

Fairness ==
    /\ \A w \in Workers : WF_vars(WorkerStep(w))
    /\ \A w \in Workers : \A c \in Callers : SF_vars(WorkerRecv(w, c))
    /\ \A w \in Workers : WF_vars(ExitRendezvous(w))
    /\ \A c \in Callers : WF_vars(SendFail(c) \/ RecvFail(c))
    /\ WF_vars(ReaperStep)

FairSpec == Init /\ [][Next]_vars /\ Fairness

\* ---------------------------------------------------------- Tile::children
RECURSIVE Pow(_, _)
Pow(b, n) == IF n = 0 THEN 1 ELSE b * Pow(b, n - 1)

Reverse(s) == [i \in 1..Len(s) |-> s[Len(s) + 1 - i]]

\* Variant: the third push repeats the second.
QuadRepeat(t) ==
    << [x |-> t.x * 2,     y |-> t.y * 2,     zoom |-> t.zoom + 1],
       [x |-> t.x * 2 + 1, y |-> t.y * 2,     zoom |-> t.zoom + 1],
       [x |-> t.x * 2 + 1, y |-> t.y * 2,     zoom |-> t.zoom + 1],
       [x |-> t.x * 2,     y |-> t.y * 2 + 1, zoom |-> t.zoom + 1] >>

\* The four tiles pushed for one tile t with t.zoom == z, in push order.
Quad(t) ==
    << [x |-> t.x * 2,     y |-> t.y * 2,     zoom |-> t.zoom + 1],
       [x |-> t.x * 2 + 1, y |-> t.y * 2,     zoom |-> t.zoom + 1],
       [x |-> t.x * 2 + 1, y |-> t.y * 2 + 1, zoom |-> t.zoom + 1],
       [x |-> t.x * 2,     y |-> t.y * 2 + 1, zoom |-> t.zoom + 1] >>

\* for t in tiles.clone().iter() { if t.zoom == z { push x 4 } }: the pushes
\* made while iterating over the first n elements of the clone.
RECURSIVE Pushes(_, _, _)
Pushes(clone, n, z) ==
    IF n = 0 THEN <<>>
    ELSE Pushes(clone, n - 1, z)
         \o (IF clone[n].zoom = z THEN Quad(clone[n]) ELSE <<>>)

\* Inputs: a tile within the quadtree (0 <= x, y < 2^zoom) and a target zoom.
InputTiles ==
    UNION { { [x |-> a, y |-> b, zoom |-> z] :
                a \in 0..(Pow(2, z) - 1), b \in 0..(Pow(2, z) - 1) } :
            z \in 0..MaxZoom }

TileInit ==
    /\ tile \in InputTiles
    /\ target \in 0..(tile.zoom + MaxDepth)
    /\ tiles = <<tile>>
    /\ tz = tile.zoom
    /\ tpc = "loop"

\* One iteration of `for z in self.zoom..target_zoom`.
ChildrenLevel ==
    /\ tpc = "loop"
    /\ tz < target
    /\ tiles' = tiles \o Pushes(tiles, Len(tiles), tz)
    /\ tz' = tz + 1
    /\ UNCHANGED <<tile, target, tpc, poolvars>>

\* The range is exhausted: tiles.reverse(); tiles
ChildrenReturn ==
    /\ tpc = "loop"
    /\ tz >= target
    /\ tiles' = Reverse(tiles)
    /\ tpc' = "done"
    /\ UNCHANGED <<tile, target, tz, poolvars>>

InitTile == PoolInit /\ size = 1 /\ TileInit

NextTile ==
    \/ ChildrenLevel
    \/ ChildrenReturn

SpecTile == InitTile /\ [][NextTile]_vars

\* ===================================================================== claims
LiveOf(k) == {w \in Spawned : wkey[w] = k /\ wpc[w] \in MapAlive}
InLoopOf(k) == {w \in Spawned : wkey[w] = k /\ wpc[w] \notin LeftLoop}
TimedOutOf(k) == {w \in Spawned : wkey[w] = k /\ wpc[w] \in LeftLoop}
SlotsFull == Cardinality({w \in Spawned : wpc[w] \in MapAlive}) >= size

\* C1: in every reachable state each key has at most one live Renderer, a
\* Renderer being live from Map::from's return until its worker drops it
\* (a worker whose exit.send has returned but whose map is not yet dropped
\* included).
C1_OneLiveRendererPerKey ==
    \A k \in Keys : Cardinality(LiveOf(k)) <= 1

\* C2: the Reaper's process-wide cleanup never runs in a state where a
\* Renderer is alive.
C2_CleanupWithoutLiveRenderer ==
    rpc = "cleanup" => \A w \in Spawned : wpc[w] \notin MapAlive

\* C3: between idle-timeouts of a key's worker, all acquire_or_create calls
\* for the key are served by one worker: at most one worker of the key has
\* not left its loop, the workers spawned for a key exceed its timed-out
\* workers by at most one, and every channel held on a worker that has not
\* timed out is the channel of the key's entry.
C3_OneWorkerPerKey ==
    /\ \A k \in Keys :
         /\ Cardinality(InLoopOf(k)) <= 1
         /\ Cardinality({w \in Spawned : wkey[w] = k})
               <= Cardinality(TimedOutOf(k)) + 1
    /\ \A c \in Callers :
         (chan[c] # NoWorker /\ wpc[chan[c]] \notin LeftLoop)
            => lookup[wkey[chan[c]]] = chan[c]

\* Two callers hold the channel of the only worker ever spawned, which has
\* constructed its Map and answered one of them.
C3_Witness ==
    /\ nworkers = 1
    /\ chan["c1"] = 1 /\ chan["c2"] = 1
    /\ cpc["c1"] = "got" /\ cpc["c2"] = "have"

\* C4: an acquire_or_create issued after a worker's idle-timeout has elapsed
\* never returns the channel of a worker that has timed out.
C4_AcquireAfterTimeoutIsFresh ==
    [][\A c \in Callers :
          (cpc[c] = "idle" /\ cpc'[c] = "have") => wpc'[chan'[c]] \notin LeftLoop]_vars

\* C5 (as claimed): a render on a channel whose worker has left its loop
\* fails at once, in every state from the break on.
C5_FailsAtOnceAfterBreak ==
    \A c \in Callers :
        (cpc[c] = "sending" /\ wpc[chan[c]] \in LeftLoop) => ENABLED SendFail(c)

\* C5 (amended): a render on a channel whose worker has dropped its end of
\* the request channel (closure returned or unwound) fails at once; while
\* the worker is between its break and the end of its closure the send can
\* neither fail nor be received: it blocks until the worker has finished.
C5_FailsOnceDropped ==
    \A c \in Callers :
        cpc[c] = "sending" =>
            /\ wpc[chan[c]] \in Dropped => ENABLED SendFail(c)
            /\ wpc[chan[c]] \in {"exiting", "notified"} =>
                   /\ ~ENABLED SendFail(c)
                   /\ ~ENABLED WorkerRecv(chan[c], c)

\* A caller is blocked in send on a worker that waits in exit.send.
C5_Witness ==
    \E c \in Callers : cpc[c] = "sending" /\ wpc[chan[c]] = "exiting"

\* C6 (as claimed): with every slot occupied by a live worker,
\* acquire_or_create for a new key does not return a channel.
C6_AcquireBlocksWhenFull ==
    [][\A c \in Callers :
          (SlotsFull /\ cpc[c] = "idle" /\ cpc'[c] = "have")
              => nworkers' = nworkers]_vars

\* C6 (amended): acquire_or_create never waits for a slot: whenever the lock
\* is free it returns, and for a new key the channel it returns belongs to
\* a queued worker.  While that worker is queued a render on the channel
\* is neither received nor failed, and the worker starts only when a slot
\* is free.
C6_RenderWaitsForSlot ==
    /\ \A c \in Callers, k \in Keys :
         (cpc[c] = "idle" /\ lock = "free" /\ nworkers < MaxWorkers)
            => ENABLED Acquire(c, k)
    /\ \A c \in Callers :
         (cpc[c] = "sending" /\ wpc[chan[c]] = "queued") =>
            /\ ~ENABLED WorkerRecv(chan[c], c)
            /\ ~ENABLED SendFail(c)
    /\ \A w \in Spawned :
         (wpc[w] = "queued" /\ Busy >= size) => ~ENABLED WorkerStart(w)

\* Every slot holds a live worker and a caller is blocked in render on the
\* channel of a queued worker for a key none of them serves.
C6_Witness ==
    /\ SlotsFull
    /\ \E c \in Callers :
         /\ cpc[c] = "sending"
         /\ wpc[chan[c]] = "queued"
         /\ LiveOf(wkey[chan[c]]) = {}

\* The bytes a caller got are not those of the extent it passed.
Misdelivered(c) ==
    cpc[c] = "got" /\ cresp[c] # Draw(wkey[chan[c]], cext[c])

\* C7 (as claimed): when a second caller's send on a channel is pending
\* while a first caller waits in recv for the image the worker is sending,
\* one of the two gets the bytes drawn for the other's extent.
C7_Misdelivery ==
    \A c, d \in Callers :
        (/\ cpc[c] = "receiving" /\ cpc[d] = "sending"
         /\ chan[c] = chan[d] /\ cext[c] # cext[d]
         /\ wpc[chan[c]] = "replying")
            ~> (Misdelivered(c) \/ Misdelivered(d))

\* C7 (amended): no interleaving delivers a response to a caller other than
\* the one whose extent was drawn: at most one caller per channel is
\* between the completion of its send and the completion of its recv, and
\* the bytes a caller gets are those of its own extent.
C7_NoMisdelivery ==
    /\ \A c \in Callers : ~Misdelivered(c)
    /\ \A w \in Spawned :
         Cardinality({c \in Callers : chan[c] = w /\ cpc[c] = "receiving"}) <= 1

\* Both callers render on the same channel with different extents; one has
\* its response while the other's extent is being drawn.
C7_Witness ==
    /\ chan["c1"] = chan["c2"]
    /\ cpc["c1"] = "got" /\ cpc["c2"] = "receiving"
    /\ cext["c1"] # cext["c2"]
    /\ wpc[chan["c2"]] = "replying"

\* The caller has the bytes drawn from its extent by its key's worker.
Served(c) == cpc[c] = "got" /\ cresp[c] = Draw(wkey[chan[c]], cext[c])

\* The caller is in render's send on a worker that holds a thread and has
\* not left its loop.
RenderOnSlot(c) ==
    cpc[c] = "sending" /\ wpc[chan[c]] \in {"init", "waiting", "drawing", "replying"}

\* C8 (as claimed): a render on a channel whose worker holds a slot and has
\* not timed out eventually returns the bytes drawn from its extent.
C8_RenderReturnsBytes ==
    \A c \in Callers : RenderOnSlot(c) ~> Served(c)

\* C8 (amended): such a render eventually returns the bytes drawn from its
\* extent, unless Map::from or Map::draw panics in the worker, in which case
\* the call fails.
C8_RenderReturnsBytesOrFails ==
    \A c \in Callers :
        RenderOnSlot(c) ~>
            (Served(c) \/ (cpc[c] = "failed" /\ wpc[chan[c]] \in {"deadC", "deadD"}))

\* A caller has its bytes from a worker that is back in select!.
C8_Witness ==
    \E c \in Callers : Served(c) /\ wpc[chan[c]] = "waiting"

\* C10: two workers of distinct keys can draw at the same time, and whatever
\* the other workers and callers do, a waiting worker accepts a pending
\* extent and a replying worker delivers to its receiving caller.
C10_KeysRenderInParallel ==
    \A c \in Callers :
        /\ (cpc[c] = "sending" /\ wpc[chan[c]] = "waiting")
              => ENABLED WorkerRecv(chan[c], c)
        /\ (cpc[c] = "receiving" /\ wpc[chan[c]] = "drawing")
              => ENABLED WorkerDraw(chan[c])
        /\ (cpc[c] = "receiving" /\ wpc[chan[c]] = "replying")
              => ENABLED WorkerReply(chan[c], c)

\* The workers of two distinct keys are inside map.draw at the same time.
C10_Witness ==
    \E v, w \in Spawned :
        /\ wkey[v] # wkey[w]
        /\ wpc[v] = "drawing" /\ wpc[w] = "drawing"

\* ------------------------------------------------------------ C9 (children)
RECURSIVE SumPow4(_)
SumPow4(n) == IF n = 0 THEN 1 ELSE Pow(4, n) + SumPow4(n - 1)

Range(s) == {s[i] : i \in 1..Len(s)}

\* The descendants of t down to zoom z1, t included.
Descendants(t, z1) ==
    UNION { { [x |-> a, y |-> b, zoom |-> z] :
                a \in (t.x * Pow(2, z - t.zoom))..((t.x + 1) * Pow(2, z - t.zoom) - 1),
                b \in (t.y * Pow(2, z - t.zoom))..((t.y + 1) * Pow(2, z - t.zoom) - 1) } :
            z \in t.zoom..z1 }

\* C9: for z1 >= tile.zoom, children(tile, z1) has sum_{i=0..z1-zoom} 4^i
\* tiles, ends with the tile itself, starts with a tile of zoom z1, and each
\* split tile contributes (2x,2y), (2x+1,2y), (2x+1,2y+1), (2x,2y+1) at the
\* next zoom (found, reversed, as four consecutive elements of the result).
C9_Children ==
    (tpc = "done" /\ target >= tile.zoom) =>
        /\ Len(tiles) = SumPow4(target - tile.zoom)
        /\ tiles[Len(tiles)] = tile
        /\ tiles[1].zoom = target
        /\ Range(tiles) = Descendants(tile, target)
        /\ \A j \in 0..((Len(tiles) - 1) \div 4 - 1) :
             LET px == tiles[4 * j + 4].x \div 2
                 py == tiles[4 * j + 4].y \div 2
                 pz == tiles[4 * j + 4].zoom - 1
             IN  /\ [x |-> px, y |-> py, zoom |-> pz] \in Range(tiles)
                 /\ tiles[4 * j + 4] = [x |-> 2 * px,     y |-> 2 * py,     zoom |-> pz + 1]
                 /\ tiles[4 * j + 3] = [x |-> 2 * px + 1, y |-> 2 * py,     zoom |-> pz + 1]
                 /\ tiles[4 * j + 2] = [x |-> 2 * px + 1, y |-> 2 * py + 1, zoom |-> pz + 1]
                 /\ tiles[4 * j + 1] = [x |-> 2 * px,     y |-> 2 * py + 1, zoom |-> pz + 1]

\* children of a zoom-1 tile, two levels down: 21 tiles.
C9_Witness ==
    /\ tpc = "done"
    /\ tile = [x |-> 1, y |-> 0, zoom |-> 1]
    /\ target = 3
    /\ Len(tiles) = 21

\* C11: a worker's exit order is release the Renderer, remove its own entry,
\* notify the Reaper: at the step where the Reaper receives a worker's
\* notification, that worker's Renderer is already released and its entry is
\* already absent from the pool.
C11_ReleasedAndEvictedBeforeNotify ==
    [][\A w \in Workers :
         (wpc[w] = "exiting" /\ wpc'[w] = "notified") =>
             /\ wpc'[w] \notin MapAlive
             /\ lookup'[wkey[w]] # w]_vars

\* C12: the Reaper's remove(..).unwrap() never fails, whatever the
\* interleaving of acquire_or_create with a pending notification: while a
\* notification for a key is held by the Reaper, the key's entry is present
\* and is the entry of a worker that has sent its notification; no entry of
\* such a worker is left once the Reaper is idle again.
C12_EvictionFindsEntry ==
    /\ rpc # "panicked"
    /\ lock # "poisoned"
    /\ rpc = "got" =>
          /\ rkey \in Keys
          /\ lookup[rkey] # NoWorker
          /\ wpc[lookup[rkey]] \in {"notified", "done"}
    /\ rpc # "got" =>
          \A k \in Keys :
              lookup[k] # NoWorker => wpc[lookup[k]] \notin {"notified", "done"}

\* The Reaper has removed a key of which a caller still holds a channel.
C12_Witness ==
    /\ rpc = "removed"
    /\ lookup[rkey] = NoWorker
    /\ \E c \in Callers :
         /\ cpc[c] = "have"
         /\ wkey[chan[c]] = rkey
         /\ wpc[chan[c]] \in {"notified", "done"}

\* C13: an entry for a key is present in the pool exactly when some worker
\* spawned for the key has not yet released its Renderer and terminated.
C13_EntryIffWorker ==
    \A k \in Keys :
        lookup[k] # NoWorker <=>
            \E w \in Spawned : wkey[w] = k /\ wpc[w] \notin Dropped

\* C14: for each notification the Reaper handles, the cleanup runs once if
\* the pool is empty after the eviction and not at all otherwise, and from the
\* emptiness check to the end of the cleanup the Reaper holds the lock: in
\* every step taken meanwhile no entry is inserted and no worker is spawned,
\* and the cleanup is entered only from the check and left only to wait for
\* the next notification, releasing the lock.
C14_CleanupGate ==
    [][/\ (rpc = "removed" /\ rpc' # "removed") =>
              rpc' = IF PoolEmpty(lookup) THEN "cleanup" ELSE "idle"
       /\ (rpc' = "cleanup" /\ rpc # "cleanup") =>
              (rpc = "removed" /\ PoolEmpty(lookup))
       /\ (rpc = "cleanup" /\ rpc' # "cleanup") =>
              (rpc' = "idle" /\ lock' = "free")
       /\ rpc \in {"removed", "cleanup"} =>
              /\ lock = "reaper"
              /\ lookup' = lookup
              /\ nworkers' = nworkers
              /\ \A c \in Callers : cpc[c] = "idle" => cpc'[c] = "idle"
      ]_vars

\* The cleanup is running while a caller is about to call acquire_or_create
\* and another still holds a channel of the evicted worker.
C14_Witness ==
    /\ rpc = "cleanup"
    /\ \E c, d \in Callers :
         /\ cpc[c] = "idle"
         /\ cpc[d] = "have"

\* C15: the pool lock is never held across a Renderer construction or a
\* render: it is held only inside the Reaper's eviction, and whenever some
\* worker is constructing its Map or drawing and the Reaper is not evicting,
\* every acquire_or_create of a caller can complete at once, for the key
\* under construction or being rendered as for any other.
C15_LockNotHeldAcrossWork ==
    /\ lock # "free" => rpc \in {"removed", "cleanup"}
    /\ \A c \in Callers, k \in Keys :
         ( /\ cpc[c] = "idle"
           /\ rpc \notin {"removed", "cleanup"}
           /\ \E w \in Spawned : wpc[w] \in {"init", "drawing"}
           /\ lookup[k] # NoWorker \/ nworkers < MaxWorkers )
         => ENABLED Acquire(c, k)

\* A worker is drawing for one caller while another caller is about to call
\* acquire_or_create, for the key being rendered or for a new one.
C15_Witness ==
    /\ \E v \in Spawned : wpc[v] = "drawing" /\ lookup[wkey[v]] = v
    /\ \E c \in Callers : cpc[c] = "idle"
    /\ nworkers < MaxWorkers
    /\ lock = "free"

\* C16: the idle timeout never interrupts a request: a worker leaves its
\* loop only from the select! wait, with no extent accepted and unanswered
\* (none held, no image pending, no caller waiting for its response), and
\* when a response has been delivered the worker waits again with no idle
\* time elapsed.
C16_TimeoutNeverInterrupts ==
    [][\A w \in Workers :
         /\ (wpc[w] # "exiting" /\ wpc'[w] = "exiting") =>
               /\ wpc[w] = "waiting"
               /\ wext[w] = NoExtent
               /\ wimg[w] = NoImage
               /\ \A c \in Callers : chan[c] = w => cpc[c] # "receiving"
         /\ (wpc[w] = "replying" /\ wpc'[w] = "waiting") =>
               wtick'[w] = 0
      ]_vars

\* A worker that has answered a request has idled out afterwards.
C16_Witness ==
    \E w \in Spawned, c \in Callers :
        /\ wpc[w] = "exiting"
        /\ chan[c] = w
        /\ cpc[c] = "got"
        /\ cresp[c] # NoImage

\* C17: within one key requests are served one at a time: in every reachable
\* state at most one request of a key is accepted and unanswered (at most one
\* caller of the key's channels has had its extent received and is waiting
\* for the image), at most one worker of the key is serving, and a worker
\* that holds an accepted extent holds that caller's.
C17_OneRequestPerKey ==
    \A k \in Keys :
        LET accepted == {c \in Callers : /\ cpc[c] = "receiving"
                                         /\ wkey[chan[c]] = k}
            serving == {w \in Spawned : /\ wkey[w] = k
                                        /\ wpc[w] \in {"drawing", "replying"}}
        IN  /\ Cardinality(accepted) <= 1
            /\ Cardinality(serving) <= 1
            /\ \A w \in serving :
                 /\ \E c \in accepted : chan[c] = w
                 /\ wpc[w] = "drawing" =>
                      \A c \in accepted : wext[w] = cext[c]

\* A worker is serving one caller's request while a second caller of the
\* same key is blocked in its send.
C17_Witness ==
    \E w \in Spawned, c, d \in Callers :
        /\ wpc[w] = "drawing"
        /\ chan[c] = w /\ cpc[c] = "receiving"
        /\ chan[d] = w /\ cpc[d] = "sending"

\* C18: for a pool of N slots, the workers that hold a thread, and so the
\* workers that own a Renderer, never number more than N; the one further
\* thread is the Reaper's, whose loop never ends.
C18_AtMostSizeWorkers ==
    /\ Busy <= size
    /\ Cardinality({w \in Spawned : wpc[w] \in MapAlive}) <= size
    /\ rpc # "panicked"

\* Every slot is taken by a worker owning a Renderer, the Reaper is inside
\* an eviction, and a further worker is queued.
C18_Witness ==
    /\ Cardinality({w \in Spawned : wpc[w] \in MapAlive}) = size
    /\ \E w \in Spawned : wpc[w] = "queued"
    /\ rpc = "removed"

\* The pool entry of worker w's key is w's.
EntryOf(w) == wkey[w] \in Keys /\ lookup[wkey[w]] = w

\* C19: the entry of a worker that has exited, by idle timeout or by a failed
\* construction or render, does not stay in the pool for ever, so that a
\* retried acquire_or_create eventually gets a channel backed by a new worker.
C19_ExitedEntryLeaves ==
    \A w \in Workers :
        (wpc[w] \in (LeftLoop \cup Dropped) /\ EntryOf(w)) ~> ~EntryOf(w)

\* C20: a worker never observes its request channel disconnected while its
\* entry is in the pool: whenever a worker waits in its select! the entry of
\* its key is its own and holds a sender, and every step by which a worker
\* leaves its loop is the idle-timeout branch, taken after the whole timeout
\* has elapsed, also when no caller holds a clone of the channel any more.
C20_OnlyTimeoutBreak ==
    [][\A w \in Workers :
         /\ wpc[w] = "waiting" => EntryOf(w)
         /\ (wpc[w] = "waiting" /\ wpc'[w] = "exiting") =>
               /\ wtick[w] = IdleTicks
               /\ EntryOf(w)
      ]_vars

\* A worker has left its loop after answering a request, when every caller
\* had dropped its clone of the channel; its entry is still in the pool.
C20_Witness ==
    \E w \in Spawned :
        /\ wpc[w] = "exiting"
        /\ wtick[w] = IdleTicks
        /\ EntryOf(w)
        /\ \A c \in Callers : chan[c] = NoWorker /\ cpc[c] = "idle"

====
